---------------------------- MODULE Spec2Model ----------------------------
(***************************************************************************)
(* A model of corelib/src/util2d.cpp (rtabmap::util2d): the block scorers  *)
(* ssd and sad, calcStereoCorrespondences, calcOpticalFlowPyrLKStereo,     *)
(* disparityFromStereoCorrespondences, the disparity/depth conversions,    *)
(* registerDepth and fillRegisteredDepthHoles.                             *)
(*                                                                         *)
(* float is IEEE-754 binary32 with round-to-nearest-even, modelled bit for *)
(* bit on normal numbers, zero, the infinities and NaN.  A number is       *)
(* sgn * man * 2^exp with man = 0 or 2^23 <= man < 2^24.  Every            *)
(* intermediate integer stays below 2^31.                                  *)
(***************************************************************************)
EXTENDS Integers, Naturals, Sequences, FiniteSets, TLC

-----------------------------------------------------------------------------
(* binary32 arithmetic *)

Two23 == 2^23
Two24 == 2^24

FZero == [cls |-> "num", sgn |-> 0, man |-> 0, exp |-> 0]
FNaN == [cls |-> "nan", sgn |-> 0, man |-> 0, exp |-> 0]
FInf(sg) == [cls |-> "inf", sgn |-> sg, man |-> 0, exp |-> 0]
FNum(sg, m, e) == [cls |-> "num", sgn |-> sg, man |-> m, exp |-> e]

IsNaN(a) == a.cls = "nan"
IsInf(a) == a.cls = "inf"
IsZero(a) == a.cls = "num" /\ a.man = 0
IsFinite(a) == a.cls = "num"

\* number of significant bits of n, 0 <= n < 2^30
BitLen(n) == CHOOSE k \in 0..30 : n < 2^k /\ (k = 0 \/ n >= 2^(k-1))

\* the binary32 nearest to (n + f) * 2^e, where 0 <= f < 1 and sticky says
\* f > 0; ties go to the even significand.  n has at least 25 significant
\* bits whenever sticky is set.  Above FLT_MAX the result is an infinity.
RoundNE(sg, n, e, sticky) ==
    IF n = 0 THEN FZero
    ELSE LET L == BitLen(n) IN
         IF L <= 24 THEN FNum(sg, n * 2^(24 - L), e - (24 - L))
         ELSE LET s == L - 24
                  q == n \div 2^s
                  r == n % 2^s
                  half == 2^(s - 1)
                  up == r > half \/ (r = half /\ (sticky \/ q % 2 = 1))
                  q2 == IF up THEN q + 1 ELSE q
                  m2 == IF q2 = Two24 THEN Two23 ELSE q2
                  e2 == IF q2 = Two24 THEN e + s + 1 ELSE e + s
              IN IF e2 > 104 THEN FInf(sg) ELSE FNum(sg, m2, e2)

\* float(i) for an int i, |i| < 2^30
FromInt(i) == IF i >= 0 THEN RoundNE(0, i, 0, FALSE) ELSE RoundNE(1, -i, 0, FALSE)

FNeg(a) == IF IsNaN(a) \/ IsZero(a) THEN a ELSE [a EXCEPT !.sgn = 1 - a.sgn]
FAbs(a) == IF IsNaN(a) THEN a ELSE [a EXCEPT !.sgn = 0]

\* a * b
FMul(a, b) ==
    IF IsNaN(a) \/ IsNaN(b) THEN FNaN
    ELSE IF (IsInf(a) /\ IsZero(b)) \/ (IsZero(a) /\ IsInf(b)) THEN FNaN
    ELSE IF IsInf(a) \/ IsInf(b) THEN FInf((a.sgn + b.sgn) % 2)
    ELSE IF IsZero(a) \/ IsZero(b) THEN FZero
    ELSE LET a1 == a.man \div 4096
             a0 == a.man % 4096
             b1 == b.man \div 4096
             b0 == b.man % 4096
             mid == a1 * b0 + a0 * b1
             low == (mid % 4096) * 4096 + a0 * b0
             hi == a1 * b1 + (mid \div 4096) + (low \div Two24)
             lo == low % Two24
             \* the 48-bit product is hi * 2^24 + lo
             n == hi * 32 + (lo \div 2^19)
         IN RoundNE((a.sgn + b.sgn) % 2, n, a.exp + b.exp + 19, lo % 2^19 # 0)

\* k more quotient bits of r / d by long division: <<quotient, remainder>>
RECURSIVE LongDiv(_, _, _, _)
LongDiv(q, r, d, k) ==
    IF k = 0 THEN <<q, r>>
    ELSE LongDiv(2 * q + ((2 * r) \div d), (2 * r) % d, d, k - 1)

\* a / b
FDiv(a, b) ==
    IF IsNaN(a) \/ IsNaN(b) THEN FNaN
    ELSE IF (IsInf(a) /\ IsInf(b)) \/ (IsZero(a) /\ IsZero(b)) THEN FNaN
    ELSE IF IsInf(a) \/ IsZero(b) THEN FInf((a.sgn + b.sgn) % 2)
    ELSE IF IsInf(b) \/ IsZero(a) THEN FZero
    ELSE LET qr == LongDiv(a.man \div b.man, a.man % b.man, b.man, 26)
         IN RoundNE((a.sgn + b.sgn) % 2, qr[1], a.exp - b.exp - 26, qr[2] # 0)

\* |a| < |b|, |a| = |b| for two numbers
MagLt(a, b) ==
    IF b.man = 0 THEN FALSE
    ELSE IF a.man = 0 THEN TRUE
    ELSE a.exp < b.exp \/ (a.exp = b.exp /\ a.man < b.man)
MagEq(a, b) == a.man = b.man /\ (a.man = 0 \/ a.exp = b.exp)

\* the sum of two numbers of the given signs (big has the larger magnitude)
AddMag(big, small, sgBig, sgSmall) ==
    IF small.man = 0 THEN (IF big.man = 0 THEN FZero ELSE FNum(sgBig, big.man, big.exp))
    ELSE LET d == big.exp - small.exp
             nb == big.man * 8
             ns == IF d <= 3 THEN small.man * 2^(3 - d)
                   ELSE IF d - 3 >= 24 THEN 1
                   ELSE LET sh == small.man \div 2^(d - 3)
                            lost == small.man % 2^(d - 3) # 0
                        IN IF lost /\ sh % 2 = 0 THEN sh + 1 ELSE sh
             n == IF sgBig = sgSmall THEN nb + ns ELSE nb - ns
         IN RoundNE(sgBig, n, big.exp - 3, FALSE)

\* a + b
FAdd(a, b) ==
    IF IsNaN(a) \/ IsNaN(b) THEN FNaN
    ELSE IF IsInf(a) /\ IsInf(b) THEN (IF a.sgn = b.sgn THEN a ELSE FNaN)
    ELSE IF IsInf(a) THEN a
    ELSE IF IsInf(b) THEN b
    ELSE IF MagLt(a, b) THEN AddMag(b, a, b.sgn, a.sgn)
    ELSE AddMag(a, b, a.sgn, b.sgn)

\* a - b
FSub(a, b) == FAdd(a, FNeg(b))

\* a < b, a <= b, a == b as C++ compares floats (false on NaN)
FLt(a, b) ==
    IF IsNaN(a) \/ IsNaN(b) THEN FALSE
    ELSE IF IsInf(a) THEN a.sgn = 1 /\ ~(IsInf(b) /\ b.sgn = 1)
    ELSE IF IsInf(b) THEN b.sgn = 0
    ELSE IF IsZero(a) THEN b.man # 0 /\ b.sgn = 0
    ELSE IF IsZero(b) THEN a.sgn = 1
    ELSE IF a.sgn # b.sgn THEN a.sgn = 1
    ELSE IF a.sgn = 0 THEN MagLt(a, b) ELSE MagLt(b, a)
FEq(a, b) ==
    IF IsNaN(a) \/ IsNaN(b) THEN FALSE
    ELSE IF IsInf(a) \/ IsInf(b) THEN a = b
    ELSE MagEq(a, b) /\ (a.man = 0 \/ a.sgn = b.sgn)
FLe(a, b) == FLt(a, b) \/ FEq(a, b)
FGt(a, b) == FLt(b, a)
FGe(a, b) == FLe(b, a)

\* the integer part of a number of magnitude below 2^30 (conversion to an
\* integer type truncates toward zero)
FTrunc(a) ==
    LET mag == IF a.man = 0 THEN 0
               ELSE IF a.exp >= 0 THEN a.man * 2^a.exp
               ELSE IF -a.exp >= 24 THEN 0
               ELSE a.man \div 2^(-a.exp)
    IN IF a.sgn = 1 THEN -mag ELSE mag

\* floor(a) for a number of magnitude below 2^30 (cvFloor)
FFloor(a) ==
    LET t == FTrunc(a)
    IN IF a.sgn = 1 /\ ~FEq(FromInt(t), a) THEN t - 1 ELSE t

-----------------------------------------------------------------------------
(* bounds of the model *)

\* pixels of a depth or disparity map handed to the conversion layer
NPix == 2

\* samples of the widest window handed to ssd and sad with free contents
WinLen == 2

-----------------------------------------------------------------------------
(* state *)

VARIABLES
    pc,            \* the function being executed, or "done"
    \* cvtDepthFromFloat, cvtDepthToFloat, depthFromDisparity
    depth32F,      \* cvtDepthFromFloat's input (meters), row-major
    depth16U,      \* its output (millimeters), the pixels written so far
    back32F,       \* cvtDepthToFloat(depth16U), the pixels written so far
    countOverMax,  \* the local counter of both converters
    disparity,     \* depthFromDisparity's input: floats, or shorts (CV_16SC1)
    dispType,      \* disparity.type()
    type,          \* requested type of depth
    fx, baseline,
    depth,         \* depthFromDisparity's output
    px,            \* pixels visited by the running loop
    \* ssd, sad
    windowLeft,    \* [type, rows, cols, data]: data row-major
    windowRight,
    score,         \* the accumulator, returned at the end
    \* fillRegisteredDepthHoles
    registeredDepth,   \* [rows, cols, at]: at[<<row, column>>] in millimeters
    vertical, horizontal, fillDoubleHoles,
    before,        \* registeredDepth as it was handed to the call
    \* registerDepth
    srcDepth,      \* the argument depth: [rows, cols, at], millimeters
    depthK,        \* [fx, fy, cx, cy] of the depth camera, as floats
    colorK,        \* [fx, fy, cx, cy] of the color camera, as floats
    transform,     \* the translation of the transform (its rotation is I)
    registered,    \* the map under construction
    projections,   \* the in-bounds projections so far, in order:
                   \* [src, dst, z16, wrote]
    x, y,          \* the position of the running loops over columns and rows
    \* calcStereoCorrespondences
    stereoArgs,    \* the arguments, and cols and rows of the two images
    stereo,        \* the locals, under their names
    status, rightCorners,
    searched,      \* per finished point: [fitted, found0, farthest]
    \* calcOpticalFlowPyrLKStereo
    lk,            \* the arguments and the locals, under their names
    \* disparityFromStereoCorrespondences
    corr           \* the arguments and the locals, under their names

depthData == <<depth32F, depth16U, back32F, countOverMax, disparity, dispType,
               type, fx, baseline, depth>>

depthVars == <<depthData, px>>

scoreVars == <<windowLeft, windowRight, score>>

fillVars == <<registeredDepth, vertical, horizontal, fillDoubleHoles, before>>

registerVars == <<srcDepth, depthK, colorK, transform, registered, projections>>

stereoVars == <<stereoArgs, stereo, status, rightCorners, searched>>

vars == <<pc, px, x, y, depthData, scoreVars, fillVars, registerVars, stereoVars,
          lk, corr>>

\* what the functions of one component leave alone
besideDepth == <<x, y, scoreVars, fillVars, registerVars, stereoVars, lk, corr>>
besideScore == <<x, y, depthData, fillVars, registerVars, stereoVars, lk, corr>>
besideFill == <<px, depthData, scoreVars, registerVars, stereoVars, lk, corr>>
besideRegister == <<px, depthData, scoreVars, fillVars, stereoVars, lk, corr>>
besideStereo == <<px, x, y, depthData, scoreVars, fillVars, registerVars, lk,
                  corr>>
besideLK == <<px, x, y, depthData, scoreVars, fillVars, registerVars,
              stereoVars, corr>>
besideCorr == <<px, x, y, depthData, scoreVars, fillVars, registerVars,
                stereoVars, lk>>

Window(t, r, c, d) == [type |-> t, rows |-> r, cols |-> c, data |-> d]

NoWindow == Window("", 0, 0, <<>>)

NoMat == [rows |-> 0, cols |-> 0, at |-> <<>>]

\* the state of a component while another one runs
DepthIdle ==
    /\ depth32F = <<>> /\ depth16U = <<>> /\ back32F = <<>>
    /\ countOverMax = 0
    /\ disparity = <<>> /\ dispType = "" /\ type = ""
    /\ fx = FZero /\ baseline = FZero /\ depth = <<>>

ScoreIdle == windowLeft = NoWindow /\ windowRight = NoWindow /\ score = FZero

FillIdle ==
    /\ registeredDepth = NoMat /\ before = NoMat
    /\ vertical = FALSE /\ horizontal = FALSE /\ fillDoubleHoles = FALSE

NoCamera == [fx |-> FZero, fy |-> FZero, cx |-> FZero, cy |-> FZero]

RegisterIdle ==
    /\ srcDepth = NoMat /\ registered = NoMat
    /\ depthK = NoCamera /\ colorK = NoCamera
    /\ transform = <<FZero, FZero, FZero>>
    /\ projections = <<>>

StereoIdle ==
    /\ stereoArgs = <<>> /\ stereo = <<>>
    /\ status = <<>> /\ rightCorners = <<>> /\ searched = <<>>

LKIdle == lk = <<>>

CorrIdle == corr = <<>>

-----------------------------------------------------------------------------
(* Block dissimilarity scorers *)

FHalf == FNum(0, 8388608, -24)

\* ssd, lines 60-74: the difference s of one pair of samples
SampleDiff(t, l, r) ==
    IF t = "CV_8UC1" THEN FSub(FromInt(l), FromInt(r))
    ELSE IF t = "CV_32FC1" THEN FSub(l, r)
    ELSE LET sL == FAdd(FMul(FromInt(l[1]), FHalf), FMul(FromInt(l[2]), FHalf))
             sR == FAdd(FMul(FromInt(r[1]), FHalf), FMul(FromInt(r[2]), FHalf))
         IN FSub(sL, sR)

\* SsdTerm adding the difference itself
SsdTermNotSquared(acc, t, l, r) == FAdd(acc, SampleDiff(t, l, r))

\* ssd, line 76: score += s*s
SsdTerm(acc, t, l, r) ==
    LET s == SampleDiff(t, l, r) IN FAdd(acc, FMul(s, s))

\* sad, lines 95-108: score += fabs(difference)
SadTerm(acc, t, l, r) == FAdd(acc, FAbs(SampleDiff(t, l, r)))

\* samples of each encoding
Samples(t) ==
    IF t = "CV_8UC1" THEN {0, 100, 255}
    ELSE IF t = "CV_32FC1"
         THEN { FNum(1, 8388608, -22),     \* -2
                FNum(0, 12582912, -23),    \* 1.5
                FNum(0, 13107200, -17),    \* 100
                FNaN, FInf(0) }
    ELSE {<<0, 0>>, <<100, 100>>, <<-32768, -32768>>, <<32767, 32766>>}

Encodings == {"CV_8UC1", "CV_32FC1", "CV_16SC2"}

\* the sample of constant intensity 100
Hundred(t) ==
    IF t = "CV_8UC1" THEN 100
    ELSE IF t = "CV_32FC1" THEN FNum(0, 13107200, -17)
    ELSE <<100, 100>>

\* ssd/sad, lines 50-55 and 85-90: two windows of one type and one shape
\* (the UASSERTs), score = 0.0f.  Either one row of up to WinLen free
\* samples, or two 5x5 windows of constant intensity 100.
InitScore ==
    /\ pc \in {"ssd", "sad"}
    /\ \E t \in Encodings :
          \/ \E c \in 1..WinLen :
                \E dl \in [1..c -> Samples(t)], dr \in [1..c -> Samples(t)] :
                   /\ windowLeft = Window(t, 1, c, dl)
                   /\ windowRight = Window(t, 1, c, dr)
          \/ /\ windowLeft = Window(t, 5, 5, [i \in 1..25 |-> Hundred(t)])
             /\ windowRight = windowLeft
    /\ score = FZero
    /\ px = 0 /\ x = 0 /\ y = 0
    /\ DepthIdle /\ FillIdle /\ RegisterIdle /\ StereoIdle /\ LKIdle /\ CorrIdle

\* ssd, lines 56-78: one turn of the loops over v and u
SsdSample ==
    /\ pc = "ssd"
    /\ px < Len(windowLeft.data)
    /\ score' = SsdTerm(score, windowLeft.type, windowLeft.data[px + 1],
                        windowRight.data[px + 1])
    /\ px' = px + 1
    /\ UNCHANGED <<pc, windowLeft, windowRight>>
    /\ UNCHANGED besideScore

\* sad, lines 91-110: one turn of the loops over v and u
SadSample ==
    /\ pc = "sad"
    /\ px < Len(windowLeft.data)
    /\ score' = SadTerm(score, windowLeft.type, windowLeft.data[px + 1],
                        windowRight.data[px + 1])
    /\ px' = px + 1
    /\ UNCHANGED <<pc, windowLeft, windowRight>>
    /\ UNCHANGED besideScore

\* ssd and sad return score (lines 79 and 111)
ScoreReturn ==
    /\ pc \in {"ssd", "sad"}
    /\ px = Len(windowLeft.data)
    /\ pc' = "done"
    /\ UNCHANGED <<px, scoreVars, besideScore>>

NextScore == SsdSample \/ SadSample \/ ScoreReturn

SpecScore == InitScore /\ [][NextScore]_vars

\* every sample of the window is a finite number
FiniteWindow(w) ==
    w.type = "CV_32FC1" => \A i \in 1..Len(w.data) : IsFinite(w.data[i])

Scored == pc = "done" /\ windowLeft # NoWindow

\* C7 as stated: for every window W of a supported encoding ssd(W, W) = 0
\* and sad(W, W) = 0, and the score of any two windows of one shape and
\* encoding is non-negative.
C7_ZeroOnEqualAndNonNegative ==
    Scored =>
      /\ windowLeft = windowRight => FEq(score, FZero)
      /\ FGe(score, FZero)

\* C7 amended: the same for windows whose samples are finite numbers (all
\* 8-bit and packed 16-bit windows, and float windows free of NaN and of
\* infinities).
C7_ZeroOnEqualFinite ==
    (Scored /\ FiniteWindow(windowLeft) /\ FiniteWindow(windowRight)) =>
      /\ windowLeft = windowRight => FEq(score, FZero)
      /\ FGe(score, FZero)

\* the two 5x5 windows of constant intensity 100 were scored
C7_Witness ==
    /\ Scored
    /\ windowLeft.rows = 5 /\ windowLeft.cols = 5 /\ windowLeft.type = "CV_8UC1"
    /\ windowLeft = windowRight
    /\ FEq(score, FZero)

-----------------------------------------------------------------------------
(* Disparity/depth conversion layer *)

USHRT_MAX == 65535
F1000 == FromInt(1000)
F16 == FromInt(16)

\* CvtPixel with the limit one too high
CvtPixelLimit65536(v) ==
    LET d == FMul(v, F1000)
    IN IF FGt(d, FZero) /\ FLe(d, FromInt(USHRT_MAX + 1))
       THEN [mm |-> FTrunc(d) % (USHRT_MAX + 1), over |-> 0]
       ELSE IF FGt(d, FromInt(USHRT_MAX + 1)) THEN [mm |-> 0, over |-> 1]
       ELSE [mm |-> 0, over |-> 0]

\* cvtDepthFromFloat, lines 917-927: one pixel.  mm is the value stored in
\* depth16U, over is 1 when countOverMax is incremented.
CvtPixel(v) ==
    LET d == FMul(v, F1000)
    IN IF FGt(d, FZero) /\ FLe(d, FromInt(USHRT_MAX)) THEN [mm |-> FTrunc(d), over |-> 0]
       ELSE IF FGt(d, FromInt(USHRT_MAX)) THEN [mm |-> 0, over |-> 1]
       ELSE [mm |-> 0, over |-> 0]

\* ToFloatPixel scaling by 0.01
ToFloatPixelCentimeters(mm) == FDiv(FromInt(mm), FromInt(100))

\* cvtDepthToFloat, line 952: one pixel
ToFloatPixel(mm) == FDiv(FromInt(mm), F1000)

\* depthFromDisparity, line 788
DisparityValue(raw, dtype) ==
    IF dtype = "CV_16SC1" THEN FDiv(FromInt(raw), F16) ELSE raw

\* DepthOfDisparity multiplying by the disparity
DepthTimesDisparity(b, f, dv) == FMul(FMul(b, f), dv)

\* depthFromDisparity, line 792: baseline * focal / disparity
DepthOfDisparity(b, f, dv) == FDiv(FMul(b, f), dv)

\* depthFromDisparity, lines 788-811: one pixel.  val is the value the
\* pixel of depth holds afterwards (depth starts as zeros), over is 1 when
\* countOverMax is incremented.
DisparityPixel(raw, dtype, otype, b, f) ==
    LET dv == DisparityValue(raw, dtype)
        d == DepthOfDisparity(b, f, dv)
        zero == IF otype = "CV_32FC1" THEN FZero ELSE 0
    IN IF ~FGt(dv, FZero) THEN [val |-> zero, over |-> 0]
       ELSE IF ~FGt(d, FZero) THEN [val |-> zero, over |-> 0]
       ELSE IF otype = "CV_32FC1" THEN [val |-> d, over |-> 0]
       ELSE IF FLe(FMul(d, F1000), FromInt(USHRT_MAX))
            THEN [val |-> FTrunc(FMul(d, F1000)), over |-> 0]
            ELSE [val |-> zero, over |-> 1]

\* depth maps in meters handed to cvtDepthFromFloat
Meters ==
    { FZero, FNaN, FInf(0),
      FNum(1, 8388608, -23),    \* -1
      FNum(0, 8589935, -34),    \* 0.0005
      FNum(0, 8589934, -33),    \* the float below 0.001
      FNum(0, 8589935, -33),    \* 0.001f
      FNum(0, 10355737, -23),   \* 1.2345
      FNum(0, 12582912, -23),   \* 1.5
      FNum(0, 8388726, -17),    \* 64.0009
      FNum(0, 8589803, -17),    \* 65.534996, the float below 65.535
      FNum(0, 8589804, -17),    \* 65.535004, the float above 65.535
      FNum(0, 9175040, -17) }   \* 70

\* float disparities (pixels)
Disparities32F ==
    { FZero, FNaN,
      FNum(1, 8388608, -23),    \* -1
      FNum(0, 8388608, -25),    \* 0.25
      FNum(0, 12582912, -22),   \* 3
      FNum(0, 12582919, -22),   \* 3.0000017
      FNum(0, 12582920, -22),   \* 3.0000019, the next float
      FNum(0, 16384000, -14) }  \* 1000

\* fixed-point disparities (1/16 pixel)
Disparities16S == { -16, 0, 1, 48, 49, 15999, 16000 }

\* <<baseline, fx>>
Rigs ==
    { <<FNum(0, 8388608, -23), FNum(0, 8388608, -23)>>,      \* 1 m, 1 px
      <<FNum(0, 13421773, -28), FNum(0, 16384000, -15)>> }   \* 0.05 m, 500 px

SeqsUpTo(S, n) == UNION { [1..k -> S] : k \in 0..n }

InitCvt ==
    /\ pc = "cvtDepthFromFloat"
    /\ depth32F \in SeqsUpTo(Meters, NPix)
    /\ depth16U = <<>> /\ back32F = <<>>
    /\ countOverMax = 0
    /\ disparity = <<>> /\ dispType = "" /\ type = ""
    /\ fx = FZero /\ baseline = FZero /\ depth = <<>>
    /\ px = 0

InitDisparity ==
    /\ pc = "depthFromDisparity"
    /\ dispType \in {"CV_32FC1", "CV_16SC1"}
    /\ disparity \in [1..NPix -> IF dispType = "CV_32FC1" THEN Disparities32F
                                 ELSE Disparities16S]
    /\ type \in {"CV_32FC1", "CV_16UC1"}
    /\ \E r \in Rigs : baseline = r[1] /\ fx = r[2]
    /\ depth = [i \in 1..NPix |-> IF type = "CV_32FC1" THEN FZero ELSE 0]
    /\ countOverMax = 0
    /\ depth32F = <<>> /\ depth16U = <<>> /\ back32F = <<>>
    /\ px = 0

\* cvtDepthFromFloat, lines 913-929: one turn of the pixel loop
CvtFromFloatPixel ==
    /\ pc = "cvtDepthFromFloat"
    /\ px < Len(depth32F)
    /\ LET r == CvtPixel(depth32F[px + 1])
       IN /\ depth16U' = Append(depth16U, r.mm)
          /\ countOverMax' = countOverMax + r.over
    /\ px' = px + 1
    /\ UNCHANGED <<pc, depth32F, back32F, disparity, dispType, type, fx, baseline, depth>>
    /\ UNCHANGED besideDepth

\* cvtDepthFromFloat returns (line 938); its result goes to cvtDepthToFloat
CvtFromFloatReturn ==
    /\ pc = "cvtDepthFromFloat"
    /\ px = Len(depth32F)
    /\ pc' = "cvtDepthToFloat"
    /\ px' = 0
    /\ UNCHANGED <<depth32F, depth16U, back32F, countOverMax, disparity, dispType,
                   type, fx, baseline, depth>>
    /\ UNCHANGED besideDepth

\* cvtDepthToFloat, lines 948-955: one turn of the pixel loop
CvtToFloatPixel ==
    /\ pc = "cvtDepthToFloat"
    /\ px < Len(depth16U)
    /\ back32F' = Append(back32F, ToFloatPixel(depth16U[px + 1]))
    /\ px' = px + 1
    /\ UNCHANGED <<pc, depth32F, depth16U, countOverMax, disparity, dispType, type,
                   fx, baseline, depth>>
    /\ UNCHANGED besideDepth

\* cvtDepthToFloat returns (line 957)
CvtToFloatReturn ==
    /\ pc = "cvtDepthToFloat"
    /\ px = Len(depth16U)
    /\ pc' = "done"
    /\ UNCHANGED <<depthVars, besideDepth>>

\* depthFromDisparity, lines 784-813: one turn of the pixel loop
DepthFromDisparityPixel ==
    /\ pc = "depthFromDisparity"
    /\ px < Len(disparity)
    /\ LET r == DisparityPixel(disparity[px + 1], dispType, type, baseline, fx)
       IN /\ depth' = [depth EXCEPT ![px + 1] = r.val]
          /\ countOverMax' = countOverMax + r.over
    /\ px' = px + 1
    /\ UNCHANGED <<pc, depth32F, depth16U, back32F, disparity, dispType, type, fx, baseline>>
    /\ UNCHANGED besideDepth

\* depthFromDisparity returns (line 818)
DepthFromDisparityReturn ==
    /\ pc = "depthFromDisparity"
    /\ px = Len(disparity)
    /\ pc' = "done"
    /\ UNCHANGED <<depthVars, besideDepth>>

InitDepth ==
    /\ InitCvt \/ InitDisparity
    /\ x = 0 /\ y = 0
    /\ ScoreIdle /\ FillIdle /\ RegisterIdle /\ StereoIdle /\ LKIdle /\ CorrIdle

NextDepth ==
    \/ CvtFromFloatPixel
    \/ CvtFromFloatReturn
    \/ CvtToFloatPixel
    \/ CvtToFloatReturn
    \/ DepthFromDisparityPixel
    \/ DepthFromDisparityReturn

SpecDepth == InitDepth /\ [][NextDepth]_vars

-----------------------------------------------------------------------------
(* Properties of the conversion layer *)

\* 0.001f, the least float that is >= 0.001
F0001 == FNum(0, 8589935, -33)

\* v >= 65.535 (meters) as real numbers: 65.535 lies in [64, 128), where a
\* float is man * 2^-17, and 65.535 * 2^17 / 8 * 1000 = 65535 * 2^14
GE65535(v) ==
    \/ IsInf(v) /\ v.sgn = 0
    \/ /\ IsFinite(v) /\ v.sgn = 0 /\ v.man # 0
       /\ \/ v.exp > -17
          \/ v.exp = -17 /\ 125 * v.man >= USHRT_MAX * 2^14

\* 0 <= v < 65.535
Representable(v) == IsFinite(v) /\ (v.sgn = 0 \/ v.man = 0) /\ ~GE65535(v)

\* |a - b| < 0.001 as real numbers, for numbers a, b >= 0 of which the
\* smaller is 0 or at least 2^-10
AbsDiffLt1mm(a, b) ==
    LET hi == IF MagLt(a, b) THEN b ELSE a
        lo == IF MagLt(a, b) THEN a ELSE b
        d == hi.exp - lo.exp
        k == -lo.exp - 3
    IN IF lo.man = 0 THEN FLt(hi, F0001)
       ELSE IF d > 6 THEN FALSE
       ELSE IF k < 0 THEN hi = lo
       ELSE hi.man * 2^d - lo.man <= (2^k - 1) \div 125

\* the depth in meters of a pixel of depthFromDisparity (0: no measurement)
MetersOfDisparity(i) ==
    LET dv == DisparityValue(disparity[i], dispType)
    IN IF FGt(dv, FZero) THEN DepthOfDisparity(baseline, fx, dv) ELSE FZero

InCvt == pc \in {"cvtDepthFromFloat", "cvtDepthToFloat", "done"} /\ dispType = ""
InDisparity == pc \in {"depthFromDisparity", "done"} /\ dispType # ""

\* the pixels cvtDepthFromFloat has converted so far
Converted == 1..Len(depth16U)

\* C4: in the meters-to-millimeters conversion every pixel of depth
\* >= 65.535 m is written as 0 and counted once, pixels below are never
\* counted, so the counter equals the number of such pixels among those
\* visited, in cvtDepthFromFloat and in the 16-bit output of
\* depthFromDisparity; the loop goes on after such a pixel.
C4_OverflowCounted ==
    /\ InCvt =>
         /\ \A i \in Converted : GE65535(depth32F[i]) => depth16U[i] = 0
         /\ countOverMax = Cardinality({i \in Converted : GE65535(depth32F[i])})
    /\ (InDisparity /\ type = "CV_16UC1") =>
         /\ \A i \in 1..px : GE65535(MetersOfDisparity(i)) => depth[i] = 0
         /\ countOverMax = Cardinality({i \in 1..px : GE65535(MetersOfDisparity(i))})

\* a call that met an overflowing pixel first, went on, and converted a
\* pixel in range after it
C4_Witness ==
    /\ pc = "cvtDepthToFloat"
    /\ Len(depth32F) = 2
    /\ GE65535(depth32F[1]) /\ depth16U[1] = 0
    /\ depth16U[2] = 65534
    /\ countOverMax = 1

\* C5: meters -> millimeters -> meters gives back every value v with
\* 0 <= v < 65.535 to within less than 1 mm.
C5_RoundTripWithin1mm ==
    InCvt =>
      \A i \in 1..Len(back32F) :
         Representable(depth32F[i]) => AbsDiffLt1mm(back32F[i], depth32F[i])

\* a value in range that the round trip changes
C5_Witness ==
    /\ pc = "done" /\ InCvt
    /\ \E i \in 1..Len(back32F) :
          /\ Representable(depth32F[i])
          /\ depth16U[i] > 0
          /\ ~FEq(back32F[i], depth32F[i])

\* pixel i of depthFromDisparity is dropped by the 16-bit overflow guard
Dropped(i) ==
    /\ type = "CV_16UC1"
    /\ FGt(DisparityValue(disparity[i], dispType), FZero)
    /\ FGt(FMul(MetersOfDisparity(i), F1000), FromInt(USHRT_MAX))

DepthLt(a, b) == IF type = "CV_32FC1" THEN FLt(a, b) ELSE a < b
DepthLe(a, b) == IF type = "CV_32FC1" THEN FLe(a, b) ELSE a <= b
DepthIsZero(a) == IF type = "CV_32FC1" THEN IsZero(a) ELSE a = 0

\* pixels i, j visited with 0 < disparity(i) < disparity(j)
IncreasingDisparity(i, j) ==
    /\ i \in 1..px /\ j \in 1..px
    /\ FGt(DisparityValue(disparity[i], dispType), FZero)
    /\ FLt(DisparityValue(disparity[i], dispType), DisparityValue(disparity[j], dispType))

\* C6 as stated: for positive disparities d1 < d2 the depth for d2 is
\* smaller than the depth for d1, in both output types; a disparity <= 0
\* yields 0.
C6_StrictlyDecreasing ==
    InDisparity =>
      /\ \A i, j \in 1..px : IncreasingDisparity(i, j) => DepthLt(depth[j], depth[i])
      /\ \A i \in 1..px :
            FLe(DisparityValue(disparity[i], dispType), FZero) => DepthIsZero(depth[i])

\* C6 amended: the depth for d2 is not greater than the depth for d1, unless
\* the pixel of d1 was dropped by the 16-bit overflow guard, and a dropped
\* pixel holds 0; a disparity <= 0 yields 0.
C6_NonIncreasing ==
    InDisparity =>
      /\ \A i, j \in 1..px :
            (IncreasingDisparity(i, j) /\ ~Dropped(i)) => DepthLe(depth[j], depth[i])
      /\ \A i \in 1..px : Dropped(i) => DepthIsZero(depth[i])
      /\ \A i \in 1..px :
            FLe(DisparityValue(disparity[i], dispType), FZero) => DepthIsZero(depth[i])

\* two positive disparities whose depths differ, in millimeters
C6_Witness ==
    /\ pc = "done" /\ InDisparity /\ type = "CV_16UC1"
    /\ \E i, j \in 1..px :
          IncreasingDisparity(i, j) /\ depth[j] > 0 /\ depth[j] < depth[i]

-----------------------------------------------------------------------------
(* Hole-filling post-filter *)

\* defect pixels of a map handed to fillRegisteredDepthHoles
MaxDefects == 3

\* registeredDepth.rows, registeredDepth.cols
Shapes == {<<3, 3>>, <<4, 4>>}

Pixels(rows, cols) == (0..(rows - 1)) \X (0..(cols - 1))

\* the pixels the scan reads or writes: the four corners are no pixel's
\* neighbour
Scanned(rows, cols) ==
    {p \in Pixels(rows, cols) :
        ~(p[1] \in {0, rows - 1} /\ p[2] \in {0, cols - 1})}

\* a smooth, gap-free surface: every interior pixel is the average of its
\* vertical and of its horizontal neighbours
Smooth(p) == 1000 + 3 * p[1] + 2 * p[2]

\* the same surface falling away: depths decrease along rows and columns
SmoothDown(p) == 1100 - 3 * p[1] - 2 * p[2]

\* a hole, and two depths far above the surface
DefectValues == {0, 1500, 2000}

\* lines 1163, 1180, 1212, 1225: unsigned short error = 0.01*((a+c)/2)
Error(a, c) == ((a + c) \div 2) \div 100

\* a>c?a-c<=error:c-a<=error
Consistent(a, c) == IF a > c THEN a - c <= Error(a, c) ELSE c - a <= Error(a, c)

\* SingleFires without the test of the centre pixel
SingleFiresAnyCentre(a, b, c) == a # 0 /\ c # 0 /\ Consistent(a, c)

\* lines 1161-1165 and 1210-1214: the single hole is filled
SingleFires(a, b, c) ==
    /\ a # 0 /\ c # 0
    /\ (b = 0 /\ a # 0 /\ c # 0) \/ (b > a + Error(a, c) /\ b > c + Error(a, c))
    /\ Consistent(a, c)

\* FillValue keeping the first neighbour
FillValueFirst(a, c) == a

\* lines 1167 and 1216: b = (a+c)/2
FillValue(a, c) == (a + c) \div 2

\* lines 1178-1183 and 1223-1228: the double hole is bridged
DoubleFires(a, b, c, d) ==
    /\ a # 0 /\ d # 0 /\ (b = 0 \/ c = 0)
    /\ (b = 0 /\ a # 0 /\ d # 0) \/ (b > a + Error(a, d) /\ b > d + Error(a, d))
    /\ (c = 0 /\ a # 0 /\ d # 0) \/ (c > a + Error(a, d) /\ c > d + Error(a, d))
    /\ Consistent(a, d)

\* lines 1185-1196 and 1230-1241: the values given to b and to c
DoubleB(a, d) == IF a > d THEN d + (a - d) \div 4 ELSE a + (d - a) \div 4
DoubleC(a, d) == IF a > d THEN d + 3 * ((a - d) \div 4) ELSE a + 3 * ((d - a) \div 4)

\* lines 1155-1245: the body of the loops at row r, column k of the map at;
\* skip is what the body adds to y
FillBody(at, r, k, v, h, dbl) ==
    LET b == at[<<r, k>>]
        va == at[<<r - 1, k>>]
        vc == at[<<r + 1, k>>]
        ha == at[<<r, k - 1>>]
        hc == at[<<r, k + 1>>]
    IN IF v /\ SingleFires(va, b, vc)
       THEN [at |-> [at EXCEPT ![<<r, k>>] = FillValue(va, vc)],
             skip |-> IF h THEN 0 ELSE 1]
       ELSE IF v /\ dbl /\ DoubleFires(va, b, vc, at[<<r + 2, k>>])
       THEN [at |-> [at EXCEPT ![<<r, k>>] = DoubleB(va, at[<<r + 2, k>>]),
                               ![<<r + 1, k>>] = DoubleC(va, at[<<r + 2, k>>])],
             skip |-> IF h THEN 0 ELSE 2]
       ELSE IF h /\ SingleFires(ha, b, hc)
       THEN [at |-> [at EXCEPT ![<<r, k>>] = FillValue(ha, hc)], skip |-> 0]
       ELSE IF h /\ dbl /\ DoubleFires(ha, b, hc, at[<<r, k + 2>>])
       THEN [at |-> [at EXCEPT ![<<r, k>>] = DoubleB(ha, at[<<r, k + 2>>]),
                               ![<<r, k + 1>>] = DoubleC(ha, at[<<r, k + 2>>])],
             skip |-> 0]
       ELSE [at |-> at, skip |-> 0]

\* line 1150
margin == IF fillDoubleHoles THEN 2 ELSE 1

\* a CV_16UC1 map (line 1149): a smooth surface, rising or falling, with up
\* to MaxDefects defect pixels; x and y as the loops start (lines 1151, 1153)
InitFill ==
    /\ pc = "fillRegisteredDepthHoles"
    /\ \E shape \in Shapes :
          \E D \in SUBSET Scanned(shape[1], shape[2]) :
             /\ Cardinality(D) <= MaxDefects
             /\ \E dv \in [D -> DefectValues], rising \in BOOLEAN :
                   registeredDepth =
                      [rows |-> shape[1], cols |-> shape[2],
                       at |-> [p \in Pixels(shape[1], shape[2]) |->
                                 IF p \in D THEN dv[p]
                                 ELSE IF rising THEN Smooth(p)
                                 ELSE SmoothDown(p)]]
    /\ before = registeredDepth
    /\ vertical \in BOOLEAN /\ horizontal \in BOOLEAN /\ fillDoubleHoles \in BOOLEAN
    /\ x = 1 /\ y = 1
    /\ px = 0
    /\ DepthIdle /\ ScoreIdle /\ RegisterIdle /\ StereoIdle /\ LKIdle /\ CorrIdle

\* lines 1155-1245: one turn of the loop over y
FillPixel ==
    /\ pc = "fillRegisteredDepthHoles"
    /\ x < registeredDepth.cols - margin
    /\ y < registeredDepth.rows - margin
    /\ LET res == FillBody(registeredDepth.at, y, x, vertical, horizontal,
                           fillDoubleHoles)
       IN /\ registeredDepth' = [registeredDepth EXCEPT !.at = res.at]
          /\ y' = y + res.skip + 1
    /\ UNCHANGED <<pc, x, vertical, horizontal, fillDoubleHoles, before, besideFill>>

\* lines 1151-1153: the loop over y ends, the next column starts
FillNextColumn ==
    /\ pc = "fillRegisteredDepthHoles"
    /\ x < registeredDepth.cols - margin
    /\ y >= registeredDepth.rows - margin
    /\ x' = x + 1
    /\ y' = 1
    /\ UNCHANGED <<pc, fillVars, besideFill>>

\* line 1248: the loop over x ends
FillReturn ==
    /\ pc = "fillRegisteredDepthHoles"
    /\ x >= registeredDepth.cols - margin
    /\ pc' = "done"
    /\ UNCHANGED <<x, y, fillVars, besideFill>>

NextFill == FillPixel \/ FillNextColumn \/ FillReturn

SpecFill == InitFill /\ [][NextFill]_vars

-----------------------------------------------------------------------------
(* Properties of the hole-filling post-filter *)

Filled == pc = "done" /\ registeredDepth # NoMat

AllPixels == Pixels(before.rows, before.cols)

Interior(p) ==
    /\ p[1] >= 1 /\ p[1] <= before.rows - 2
    /\ p[2] >= 1 /\ p[2] <= before.cols - 2

\* every pixel of the map holds a depth
GapFree(m) == \A p \in Pixels(m.rows, m.cols) : m.at[p] # 0

\* b is above both a and c by more than 1% of their average
ExceedsBoth(a, b, c) ==
    b > a + ((a + c) \div 2) \div 100 /\ b > c + ((a + c) \div 2) \div 100

\* no interior pixel is above both its vertical or both its horizontal
\* neighbours by more than 1% of their average
NoOutlier(m) ==
    \A p \in Pixels(m.rows, m.cols) :
       (p[1] >= 1 /\ p[1] <= m.rows - 2 /\ p[2] >= 1 /\ p[2] <= m.cols - 2) =>
          /\ ~ExceedsBoth(m.at[<<p[1] - 1, p[2]>>], m.at[p], m.at[<<p[1] + 1, p[2]>>])
          /\ ~ExceedsBoth(m.at[<<p[1], p[2] - 1>>], m.at[p], m.at[<<p[1], p[2] + 1>>])

\* C1 as stated: on a map in which every pixel is non-zero, for every
\* combination of vertical, horizontal and fillDoubleHoles, the map after
\* fillRegisteredDepthHoles is identical to the map before.
C1_GapFreeUnchanged ==
    (Filled /\ GapFree(before)) => registeredDepth = before

\* C1 amended: on a map in which every pixel is non-zero, for every
\* combination of the flags, the call changes a pixel only by lowering an
\* interior pixel to a smaller non-zero depth; and when no interior pixel is
\* above both its vertical or both its horizontal neighbours by more than 1%
\* of their average, the map after the call is identical to the map before.
C1_GapFreeOnlyLowersOutliers ==
    (Filled /\ GapFree(before)) =>
       /\ \A p \in AllPixels :
             \/ registeredDepth.at[p] = before.at[p]
             \/ /\ Interior(p)
                /\ registeredDepth.at[p] > 0
                /\ registeredDepth.at[p] < before.at[p]
       /\ NoOutlier(before) => registeredDepth = before

\* a gap-free map with a far pixel on its border and no outlier went through
\* the call with every flag set
C1_Witness ==
    /\ Filled /\ GapFree(before) /\ NoOutlier(before)
    /\ vertical /\ horizontal /\ fillDoubleHoles
    /\ before.rows = 4
    /\ before.at[<<0, 1>>] = 2000
    /\ registeredDepth = before

\* the single-hole rule applied to pixel p of the map m alone: vertical
\* neighbours first, then horizontal ones
RuleAt(m, p, v, h) ==
    LET b == m.at[p]
        va == m.at[<<p[1] - 1, p[2]>>]
        vc == m.at[<<p[1] + 1, p[2]>>]
        ha == m.at[<<p[1], p[2] - 1>>]
        hc == m.at[<<p[1], p[2] + 1>>]
        fires(a, c) ==
            /\ a # 0 /\ c # 0
            /\ b = 0 \/ ExceedsBoth(a, b, c)
            /\ IF a > c THEN a - c <= ((a + c) \div 2) \div 100
                        ELSE c - a <= ((a + c) \div 2) \div 100
    IN IF v /\ fires(va, vc) THEN (va + vc) \div 2
       ELSE IF h /\ fires(ha, hc) THEN (ha + hc) \div 2
       ELSE b

\* every pixel computed from the map as it was before the call
Independent(m, v, h) ==
    [p \in Pixels(m.rows, m.cols) |->
        IF p[1] >= 1 /\ p[1] <= m.rows - 2 /\ p[2] >= 1 /\ p[2] <= m.cols - 2
        THEN RuleAt(m, p, v, h) ELSE m.at[p]]

\* C10 as stated (for the calls without fillDoubleHoles, in which a pixel is
\* written by its own turn of the loop only): the value the call leaves in
\* each pixel depends only on the map as it was before the call, that is, it
\* is the value the rule gives on that map, whatever was written to other
\* pixels earlier in the call.
C10_PixelsIndependent ==
    (Filled /\ ~fillDoubleHoles) =>
       registeredDepth.at = Independent(before, vertical, horizontal)

\* C10 amended: the same for the calls that fill in one direction at most
\* (not both vertical and horizontal) and without fillDoubleHoles.
C10_IndependentInOneDirection ==
    (Filled /\ ~fillDoubleHoles /\ ~(vertical /\ horizontal)) =>
       registeredDepth.at = Independent(before, vertical, horizontal)

\* a horizontal-only call filled a hole, read the filled pixel as the left
\* neighbour of the next column, and lowered an outlier
C10_Witness ==
    /\ Filled /\ ~fillDoubleHoles /\ horizontal /\ ~vertical
    /\ before.rows = 4
    /\ before.at[<<1, 1>>] = 0 /\ registeredDepth.at[<<1, 1>>] # 0
    /\ before.at[<<2, 2>>] = 2000 /\ registeredDepth.at[<<2, 2>>] # 2000
    /\ registeredDepth.at = Independent(before, vertical, horizontal)

\* C17 as stated: when a turn of the loop bridges the two pixels b and c
\* between a (next to b) and d (next to c), vertically or horizontally, the
\* sequence a, b, c, d is monotone after the turn, b is at least as close
\* to a as to d, and c at least as close to d as to a; both for a <= d and
\* for a > d.  (The turn that writes c is the one that bridges: no other
\* writes a pixel other than its own.)
C17_BridgeIsMonotone ==
    [][\A dir \in {<<1, 0>>, <<0, 1>>} :
          LET pb == <<y, x>>
              pn == <<y + dir[1], x + dir[2]>>
              a == registeredDepth.at[<<y - dir[1], x - dir[2]>>]
              d == registeredDepth.at[<<y + 2 * dir[1], x + 2 * dir[2]>>]
              b == registeredDepth'.at[pb]
              c == registeredDepth'.at[pn]
              dist(u, v) == IF u > v THEN u - v ELSE v - u
          IN (/\ pc = "fillRegisteredDepthHoles" /\ fillDoubleHoles
              /\ registeredDepth' # registeredDepth
              /\ registeredDepth'.at[pn] # registeredDepth.at[pn]) =>
                /\ (a <= b /\ b <= c /\ c <= d) \/ (a >= b /\ b >= c /\ c >= d)
                /\ dist(b, a) <= dist(b, d)
                /\ dist(c, d) <= dist(c, a)]_vars

\* C19: at every moment of a call, for every combination of the flags,
\* each pixel holds the value it had before the call, or a non-zero value
\* where it had 0, or a non-zero value strictly smaller than the non-zero
\* value it had; the pixels of the first and last row and column hold the
\* value they had.
C19_NeverZeroedNeverRaised ==
    registeredDepth # NoMat =>
       \A p \in AllPixels :
          \/ registeredDepth.at[p] = before.at[p]
          \/ /\ Interior(p)
             /\ registeredDepth.at[p] # 0
             /\ before.at[p] = 0 \/ registeredDepth.at[p] < before.at[p]

\* a call with every flag set has filled a hole and lowered a far pixel
C19_Witness ==
    /\ Filled /\ vertical /\ horizontal /\ fillDoubleHoles
    /\ \E p \in AllPixels :
          before.at[p] = 0 /\ registeredDepth.at[p] # 0
    /\ \E p \in AllPixels :
          /\ before.at[p] # 0
          /\ registeredDepth.at[p] # 0
          /\ registeredDepth.at[p] < before.at[p]

-----------------------------------------------------------------------------
(* Registration projector *)

INT_MAX == 2147483647
INT_MIN == -2147483647 - 1

FOne == FNum(0, 8388608, -23)

\* int i = v: the fraction is discarded; the conversion is undefined when
\* the integer part does not fit (NaN and infinities included), where the
\* builds in use yield INT_MIN (x86), or 0 for NaN and the nearest bound
\* otherwise (ARM)
IntOf(v) ==
    IF IsNaN(v) THEN {INT_MIN, 0}
    ELSE IF IsFinite(v) /\ (v.man = 0 \/ v.exp <= 7) THEN {FTrunc(v)}
    ELSE IF v.sgn = 1 THEN {INT_MIN}
    ELSE {INT_MIN, INT_MAX}

\* unsigned short z16 = v: as IntOf, only the low 16 bits being kept; the
\* conversion is undefined unless -1 < v < 65536
UShortOf(v) ==
    IF IsNaN(v) THEN {0}
    ELSE IF IsFinite(v) /\ (v.man = 0 \/ v.exp <= 7)
         THEN IF FTrunc(v) >= 0 THEN {FTrunc(v) % 65536}
              ELSE {FTrunc(v) % 65536, 0}
    ELSE IF v.sgn = 1 THEN {0}
    ELSE {0, USHRT_MAX}

\* lines 1118-1134 for the pixel (row r, column k) holding d millimeters:
\* the floats whose integer parts are dx, dy and z16
Project(d, r, k, dK, cK, t) ==
    LET dz == FMul(FromInt(d), F0001)
        P40 == FDiv(FMul(FSub(FromInt(k), dK.cx), dz), dK.fx)
        P41 == FDiv(FMul(FSub(FromInt(r), dK.cy), dz), dK.fy)
        P30 == FAdd(P40, t[1])
        P31 == FAdd(P41, t[2])
        z == FAdd(dz, t[3])
        invZ == FDiv(FOne, z)
    IN [pass |-> FGe(dz, FZero),
        dx |-> FAdd(FMul(FMul(cK.fx, P30), invZ), cK.cx),
        dy |-> FAdd(FMul(FMul(cK.fy, P31), invZ), cK.cy),
        z16 |-> FMul(z, F1000)]

\* lines 1136-1139: the depth a projection leaves in a pixel holding zReg
Merge(zReg, z16) == IF zReg = 0 \/ z16 < zReg THEN z16 ELSE zReg

\* depths of the source map: a hole, 1 mm, 1 cm, 10 cm
SourceDepths == {0, 1, 10, 100}

\* depth.rows, depth.cols
SourceShapes == {<<1, 3>>, <<2, 2>>}

FFour == FNum(0, 8388608, -21)

\* focal lengths fx = fy of <<depth camera, color camera>>; the principal
\* points are (0, 0)
FocalPairs == {<<FFour, FOne>>, <<FOne, FOne>>}

\* translations in meters, the rotation being the identity:
\* none, 0.5 mm backwards and forwards, 0.5 m forwards, 1 mm sideways
Translations ==
    { <<FZero, FZero, FZero>>,
      <<FZero, FZero, FNum(1, 8589935, -34)>>,
      <<FZero, FZero, FNum(0, 8589935, -34)>>,
      <<FZero, FZero, FNum(0, 8388608, -24)>>,
      <<F0001, FZero, FZero>> }

Camera(f) == [fx |-> f, fy |-> f, cx |-> FZero, cy |-> FZero]

\* lines 1092-1111: a non-empty CV_16UC1 map, the intrinsics as floats,
\* registered = zeros
InitRegister ==
    /\ pc = "registerDepth"
    /\ \E shape \in SourceShapes :
          /\ \E at \in [Pixels(shape[1], shape[2]) -> SourceDepths] :
                srcDepth = [rows |-> shape[1], cols |-> shape[2], at |-> at]
          /\ registered = [rows |-> shape[1], cols |-> shape[2],
                           at |-> [p \in Pixels(shape[1], shape[2]) |-> 0]]
    /\ \E f \in FocalPairs : depthK = Camera(f[1]) /\ colorK = Camera(f[2])
    /\ transform \in Translations
    /\ projections = <<>>
    /\ x = 0 /\ y = 0
    /\ px = 0
    /\ DepthIdle /\ ScoreIdle /\ FillIdle /\ StereoIdle /\ LKIdle /\ CorrIdle

\* lines 1115-1142: one turn of the loop over x, and the step of the loop
\* over y after the last column
RegisterPixel ==
    /\ pc = "registerDepth"
    /\ y < srcDepth.rows
    /\ LET p == Project(srcDepth.at[<<y, x>>], y, x, depthK, colorK, transform)
       IN \E dx \in IntOf(p.dx), dy \in IntOf(p.dy), z16 \in UShortOf(p.z16) :
             IF /\ p.pass
                /\ dx >= 0 /\ dx < registered.cols
                /\ dy >= 0 /\ dy < registered.rows
             THEN LET zReg == registered.at[<<dy, dx>>]
                  IN /\ registered' =
                          [registered EXCEPT !.at[<<dy, dx>>] = Merge(zReg, z16)]
                     /\ projections' =
                          Append(projections,
                                 [src |-> <<y, x>>, dst |-> <<dy, dx>>, z16 |-> z16,
                                  wrote |-> (zReg = 0 \/ z16 < zReg)])
             ELSE UNCHANGED <<registered, projections>>
    /\ IF x + 1 < srcDepth.cols
       THEN x' = x + 1 /\ y' = y
       ELSE x' = 0 /\ y' = y + 1
    /\ UNCHANGED <<pc, srcDepth, depthK, colorK, transform, besideRegister>>

\* line 1144
RegisterReturn ==
    /\ pc = "registerDepth"
    /\ y = srcDepth.rows
    /\ pc' = "done"
    /\ UNCHANGED <<x, y, registerVars, besideRegister>>

NextRegister == RegisterPixel \/ RegisterReturn

SpecRegister == InitRegister /\ [][NextRegister]_vars

-----------------------------------------------------------------------------
(* Properties of the registration projector *)

Registering == pc \in {"registerDepth", "done"} /\ srcDepth # NoMat

\* the depths projected so far onto the destination pixel dst
ProjectedOnto(dst) ==
    {projections[i].z16 : i \in {j \in 1..Len(projections) : projections[j].dst = dst}}

\* the least element of a non-empty set of numbers
Least(S) == CHOOSE m \in S : \A n \in S : m <= n

\* C2 as stated: nearest wins.  At every point of a call, a destination
\* pixel onto which source pixels have been projected holds the smallest of
\* the depths (mm) projected onto it so far: no later write leaves it with a
\* larger depth than one written before, and at the end it holds the
\* smallest depth among all the source pixels that projected onto it.
C2_NearestWins ==
    Registering =>
       \A i \in 1..Len(projections) :
          registered.at[projections[i].dst] = Least(ProjectedOnto(projections[i].dst))

\* C3 as stated: only source pixels with depth # 0 are projected.  A source
\* pixel whose depth is 0 never writes to the destination, a destination
\* pixel is non-zero only if a non-zero source pixel was projected onto it,
\* and an all-zero source map gives an all-zero registered map.
C3_OnlyNonEmptyProjected ==
    Registering =>
       /\ \A i \in 1..Len(projections) :
             projections[i].wrote => srcDepth.at[projections[i].src] # 0
       /\ \A dst \in Pixels(registered.rows, registered.cols) :
             registered.at[dst] # 0 =>
                \E i \in 1..Len(projections) :
                   /\ projections[i].dst = dst
                   /\ srcDepth.at[projections[i].src] # 0
       /\ (\A p \in Pixels(srcDepth.rows, srcDepth.cols) : srcDepth.at[p] = 0) =>
             \A dst \in Pixels(registered.rows, registered.cols) :
                registered.at[dst] = 0

-----------------------------------------------------------------------------
(* Pyramidal block-match correspondence engine *)

\* feature points handed to one call
NCorners == 2

\* coordinates are floats holding multiples of 1/Unit pixel, on which the
\* sums, differences and halvings of the function are exact
Unit == 1024

\* a / b and a % b of C++ on ints, b > 0: the quotient is truncated
TruncDiv(a, b) == IF a >= 0 THEN a \div b ELSE -((-a) \div b)
CRem(a, b) == a - b * TruncDiv(a, b)

\* cols or rows of level l of a pyramid over an image of n cols or rows
RECURSIVE LevelSize(_, _)
LevelSize(n, l) == IF l = 0 THEN n ELSE (LevelSize(n, l - 1) + 1) \div 2

\* cv::buildOpticalFlowPyramid (lines 152-153) returns the last level whose
\* successor would not be larger than the window, maxLevel at most
BuiltLevel(cols, rows, win, maxLevel) ==
    LET stops == {l \in 0..maxLevel :
                     \/ LevelSize(cols, l + 1) <= win[1]
                     \/ LevelSize(rows, l + 1) <= win[2]}
    IN IF stops = {} THEN maxLevel
       ELSE CHOOSE l \in stops : \A k \in stops : l <= k

\* what ssd or sad return for a pair of windows: the images are not
\* modelled, a score is any of four non-negative floats
ScoreValues == {0, 1, 2, 3}

\* points <<x, y>>: inside, near the right border, on the left border, and
\* at a half pixel
Corners ==
    { <<7 * Unit, 2 * Unit>>, <<9 * Unit, 3 * Unit>>, <<0, 2 * Unit>>,
      <<6 * Unit + Unit \div 2, 2 * Unit>> }

\* the arguments of a call on two images of 12 x 8 pixels
StereoCalls ==
    [cols : {12}, rows : {8},
     leftCorners : [1..NCorners -> Corners],
     winSize : {<<2, 3>>},
     maxLevel : {0, 3},
     disparities : {<<0, 3>>, <<-2, 0>>}]

\* the arguments of calls on two images of 65 x 33 pixels, whose pyramids
\* have four levels: a point two columns from the right border, where the
\* window fits at levels 3 to 1 only, and a point well inside
StereoCallsDeep ==
    [cols : {65}, rows : {33},
     leftCorners : {<<<<63 * Unit, 17 * Unit>>>>},
     winSize : {<<3, 3>>},
     maxLevel : {3},
     disparities : {<<0, 16>>, <<-3, 13>>, <<-16, 0>>}]
    \cup
    [cols : {65}, rows : {33},
     leftCorners : {<<<<20 * Unit + Unit \div 2, 10 * Unit>>>>},
     winSize : {<<3, 3>>},
     maxLevel : {3},
     disparities : {<<-2, 3>>, <<-6, 0>>}]

\* the parameters and the locals at the entry of a call; lower is not in
\* the code: whether the last refinement iteration found a neighbour with a
\* score under the best one ("one", or "tie" when the two neighbours have
\* the same such score) or not ("neither")
StereoLocals(args) ==
    [winSize |-> args.winSize, halfWin |-> <<0, 0>>,
     maxLevel |-> args.maxLevel,
     minDisparity |-> args.disparities[1],
     maxDisparity |-> args.disparities[2],
     i |-> 0, level |-> 0, center |-> <<0, 0>>, oi |-> 0,
     bestScore |-> -1, bestScoreIndex |-> -1,
     tmpMinDisparity |-> 0, tmpMaxDisparity |-> 0, iterations |-> 0,
     localMaxDisparity |-> 0, localMinDisparity |-> 0, d |-> 0,
     scores |-> <<>>, xc |-> 0, vc |-> 0, step |-> 0, cache |-> {},
     it |-> 0, reject |-> FALSE, lower |-> "",
     fitted |-> FALSE, found0 |-> FALSE, farthest |-> 0]

InitStereo ==
    /\ pc = "calcStereoCorrespondences"
    /\ stereoArgs \in StereoCalls
    /\ stereo = StereoLocals(stereoArgs)
    /\ status = <<>> /\ rightCorners = <<>> /\ searched = <<>>
    /\ px = 0 /\ x = 0 /\ y = 0
    /\ DepthIdle /\ ScoreIdle /\ FillIdle /\ RegisterIdle /\ LKIdle /\ CorrIdle

\* lines 134-159: the window made odd, the pyramids, status all 0
StereoStart ==
    /\ pc = "calcStereoCorrespondences"
    /\ LET odd(n) == IF n % 2 = 0 THEN n + 1 ELSE n
           win == <<odd(stereo.winSize[1]), odd(stereo.winSize[2])>>
       IN stereo' = [stereo EXCEPT
             !.winSize = win,
             !.halfWin = <<(win[1] - 1) \div 2, (win[2] - 1) \div 2>>,
             !.maxLevel = BuiltLevel(stereoArgs.cols, stereoArgs.rows, win,
                                     stereo.maxLevel)]
    /\ status' = [k \in 1..Len(stereoArgs.leftCorners) |-> 0]
    /\ rightCorners' = [k \in 1..Len(stereoArgs.leftCorners) |-> <<0, 0>>]
    /\ pc' = "point"
    /\ UNCHANGED <<stereoArgs, searched, besideStereo>>

\* lines 160-170: the next point
StereoPoint ==
    /\ pc = "point"
    /\ stereo.i < Len(stereoArgs.leftCorners)
    /\ stereo' = [stereo EXCEPT
          !.oi = 0, !.bestScore = -1, !.bestScoreIndex = -1,
          !.tmpMinDisparity = stereo.minDisparity,
          !.tmpMaxDisparity = stereo.maxDisparity,
          !.iterations = 0, !.level = stereo.maxLevel,
          !.fitted = FALSE, !.found0 = FALSE, !.farthest = 0]
    /\ pc' = "level"
    /\ UNCHANGED <<stereoArgs, status, rightCorners, searched, besideStereo>>

\* lines 174-206: a level starts; without room for the left window the
\* level is left at once
StereoLevel ==
    /\ pc = "level"
    /\ stereo.level >= 0
    /\ LET pt == stereoArgs.leftCorners[stereo.i + 1]
           level == stereo.level
           cx == TruncDiv(pt[1], Unit * 2^level)
           cy == TruncDiv(pt[2], Unit * 2^level)
           hw == stereo.halfWin[1]
           hh == stereo.halfWin[2]
           cols == LevelSize(stereoArgs.cols, level)
           rows == LevelSize(stereoArgs.rows, level)
           e == IF level = 0 THEN 1 ELSE 0
           fits == /\ cx - hw - e >= 0 /\ cx + hw + e < cols
                   /\ cy - hh >= 0 /\ cy + hh < rows
           lmax0 == TruncDiv(-stereo.tmpMaxDisparity, 2^level)
           lmin0 == TruncDiv(-stereo.tmpMinDisparity, 2^level)
           minCol == cx + lmax0 - hw - 1
           lmax1 == IF minCol < 0 THEN lmax0 - minCol ELSE lmax0
           maxCol == cx + lmin0 + hw + 1
           lmin1 == IF maxCol >= cols THEN lmin0 + (maxCol - cols - 1) ELSE lmin0
           lmax2 == IF lmin1 < lmax1 THEN lmin1 ELSE lmax1
           reset == [stereo EXCEPT !.center = <<cx, cy>>, !.oi = 0,
                                   !.bestScore = -1, !.bestScoreIndex = -1]
       IN IF fits
          THEN /\ stereo' = [reset EXCEPT
                     !.localMaxDisparity = lmax2, !.localMinDisparity = lmin1,
                     !.scores = [k \in 1..(lmin1 - lmax2 + 1) |-> 0],
                     !.d = lmin1, !.fitted = TRUE]
               /\ pc' = "candidate"
          ELSE /\ stereo' = [reset EXCEPT
                     !.localMaxDisparity = lmax0, !.localMinDisparity = lmin0,
                     !.level = level - 1]
               /\ pc' = "level"
    /\ UNCHANGED <<stereoArgs, status, rightCorners, searched, besideStereo>>

\* lines 208-222: one candidate disparity d.  cv::Mat(m, rowRange, colRange)
\* throws unless 0 <= start <= end <= m.cols; nothing catches it
StereoCandidate ==
    /\ pc = "candidate"
    /\ stereo.d > stereo.localMaxDisparity
    /\ LET first == stereo.center[1] + stereo.d - stereo.halfWin[1]
           end == stereo.center[1] + stereo.d + stereo.halfWin[1] + 1
           counted == [stereo EXCEPT !.iterations = stereo.iterations + 1]
       IN IF first < 0 \/ end > LevelSize(stereoArgs.cols, stereo.level)
          THEN /\ stereo' = counted
               /\ pc' = "abort"
          ELSE /\ \E s \in ScoreValues :
                     LET better == s > 0 /\ (stereo.bestScore < 0 \/ s < stereo.bestScore)
                     IN stereo' = [counted EXCEPT
                           !.scores[stereo.oi + 1] = s,
                           !.bestScoreIndex = IF better THEN stereo.oi ELSE @,
                           !.bestScore = IF better THEN s ELSE @,
                           !.oi = stereo.oi + 1,
                           !.d = stereo.d - 1]
               /\ pc' = pc
    /\ UNCHANGED <<stereoArgs, status, rightCorners, searched, besideStereo>>

\* the range around the best candidate, without the limits of the caller
TightenedUnclamped(tmpMin, best, level, minDisparity, maxDisparity) ==
    LET max1 == tmpMin + (best + 1) * 2^level
        min1 == tmpMin + (best - 1) * 2^level
    IN <<min1 - CRem(min1, level), max1 + CRem(max1, level)>>

\* lines 229-240: <<tmpMinDisparity, tmpMaxDisparity>> for the next level
Tightened(tmpMin, best, level, minDisparity, maxDisparity) ==
    LET max1 == tmpMin + (best + 1) * 2^level
        max2 == max1 + CRem(max1, level)
        min1 == tmpMin + (best - 1) * 2^level
        min2 == min1 - CRem(min1, level)
    IN << IF min2 < minDisparity THEN minDisparity ELSE min2,
          IF max2 > maxDisparity THEN maxDisparity ELSE max2 >>

\* lines 224-243: the scan of the level is over; above level 0 the range is
\* tightened around the best candidate; scores ends with the block
StereoTighten ==
    /\ pc = "candidate"
    /\ stereo.d <= stereo.localMaxDisparity
    /\ LET level == stereo.level
           best == stereo.bestScoreIndex
           range == Tightened(stereo.tmpMinDisparity, best, level,
                              stereo.minDisparity, stereo.maxDisparity)
       IN IF best >= 0 /\ level > 0
          THEN stereo' = [stereo EXCEPT
                  !.tmpMaxDisparity = range[2],
                  !.tmpMinDisparity = range[1],
                  !.level = level - 1, !.scores = <<>>]
          ELSE stereo' = [stereo EXCEPT !.level = level - 1, !.scores = <<>>,
                                        !.found0 = (level = 0 /\ best >= 0)]
    /\ pc' = "level"
    /\ UNCHANGED <<stereoArgs, status, rightCorners, searched, besideStereo>>

\* lines 248-276: after level 0 with a best candidate, the refinement starts
StereoRefineStart ==
    /\ pc = "level"
    /\ stereo.level < 0
    /\ stereo.bestScoreIndex >= 0
    /\ LET pt == stereoArgs.leftCorners[stereo.i + 1]
           d == -(stereo.tmpMinDisparity + stereo.bestScoreIndex)
       IN \E s \in IF pt[1] % Unit # 0 THEN ScoreValues ELSE {stereo.bestScore} :
             stereo' = [stereo EXCEPT
                !.d = d, !.bestScore = s, !.xc = pt[1] + d * Unit, !.vc = s,
                !.step = Unit \div 2, !.cache = {}, !.reject = FALSE, !.it = 0,
                !.lower = ""]
    /\ pc' = "refine"
    /\ UNCHANGED <<stereoArgs, status, rightCorners, searched, besideStereo>>

\* lines 248, 335-336: without a best candidate the point keeps status 0
StereoNoMatch ==
    /\ pc = "level"
    /\ stereo.level < 0
    /\ stereo.bestScoreIndex < 0
    /\ stereo' = [stereo EXCEPT !.i = stereo.i + 1]
    /\ searched' = Append(searched, [fitted |-> stereo.fitted, found0 |-> stereo.found0,
                                     farthest |-> 0])
    /\ pc' = "point"
    /\ UNCHANGED <<stereoArgs, status, rightCorners, besideStereo>>

\* the loop of line 277 entered once more than it has iterations
WithinBudgetInclusive(it, iterations) == it <= iterations

\* line 277: it<iterations
WithinBudget(it, iterations) == it < iterations

\* the choice of lines 305-306 with a tie going to the first neighbour
PickOnTie(v1, v2, vc, a1, a2, ac) ==
    IF v1 < vc /\ v1 <= v2 THEN a1 ELSE IF v2 < vc /\ v2 < v1 THEN a2 ELSE ac

\* lines 305-306: v1<vc&&v1<v2 ? a1 : v2<vc&&v2<v1 ? a2 : ac
Pick(v1, v2, vc, a1, a2, ac) ==
    IF v1 < vc /\ v1 < v2 THEN a1 ELSE IF v2 < vc /\ v2 < v1 THEN a2 ELSE ac

\* lines 277-322: one iteration of the refinement
StereoRefine ==
    /\ pc = "refine"
    /\ WithinBudget(stereo.it, stereo.iterations) /\ ~stereo.reject
    /\ LET xc == stereo.xc
           vc == stereo.vc
           x1 == xc - stereo.step
           x2 == xc + stereo.step
           uValue(k) == IF \E c \in stereo.cache : c[1] = k
                        THEN (CHOOSE c \in stereo.cache : c[1] = k)[2] ELSE 0
           seed == stereoArgs.leftCorners[stereo.i + 1][1] + stereo.d * Unit
       IN \E v1 \in IF uValue(x1) = 0 THEN ScoreValues ELSE {uValue(x1)},
             v2 \in IF uValue(x2) = 0 THEN ScoreValues ELSE {uValue(x2)} :
             LET nxc == Pick(v1, v2, vc, x1, x2, xc)
                 nvc == Pick(v1, v2, vc, v1, v2, vc)
                 out == nxc < seed - Unit \/ nxc > seed + Unit
                 away == IF nxc > seed THEN nxc - seed ELSE seed - nxc
             IN stereo' = [stereo EXCEPT
                   !.xc = nxc, !.vc = nvc,
                   !.step = IF nxc = xc THEN stereo.step \div 2 ELSE @,
                   !.cache = IF nxc = xc \/ (\E c \in stereo.cache : c[1] = xc)
                             THEN @ ELSE @ \cup {<<xc, vc>>},
                   !.reject = out,
                   !.it = IF out THEN @ ELSE @ + 1,
                   !.lower = IF v1 >= vc /\ v2 >= vc THEN "neither"
                             ELSE IF v1 = v2 THEN "tie" ELSE "one",
                   !.farthest = IF away > @ THEN away ELSE @]
    /\ UNCHANGED <<pc, stereoArgs, status, rightCorners, searched, besideStereo>>

\* lines 324-335: the result of the point; the locals of the refinement end
\* with its block
StereoPointEnd ==
    /\ pc = "refine"
    /\ ~WithinBudget(stereo.it, stereo.iterations) \/ stereo.reject
    /\ rightCorners' = [rightCorners EXCEPT ![stereo.i + 1] =
                           <<stereo.xc, stereoArgs.leftCorners[stereo.i + 1][2]>>]
    /\ status' = [status EXCEPT ![stereo.i + 1] = IF stereo.reject THEN 0 ELSE 1]
    /\ searched' = Append(searched, [fitted |-> stereo.fitted, found0 |-> stereo.found0,
                                     farthest |-> stereo.farthest])
    /\ stereo' = [stereo EXCEPT !.i = stereo.i + 1, !.xc = 0, !.vc = 0, !.step = 0,
                                 !.cache = {}, !.it = 0, !.reject = FALSE, !.d = 0,
                                 !.lower = ""]
    /\ pc' = "point"
    /\ UNCHANGED <<stereoArgs, besideStereo>>

\* line 343
StereoReturn ==
    /\ pc = "point"
    /\ stereo.i = Len(stereoArgs.leftCorners)
    /\ pc' = "done"
    /\ UNCHANGED <<stereoVars, besideStereo>>

NextStereo ==
    \/ StereoStart
    \/ StereoPoint
    \/ StereoLevel
    \/ StereoCandidate
    \/ StereoTighten
    \/ StereoRefineStart
    \/ StereoNoMatch
    \/ StereoRefine
    \/ StereoPointEnd
    \/ StereoReturn

SpecStereo == InitStereo /\ [][NextStereo]_vars

\* the same function on the deeper pyramids
InitStereoDeep ==
    /\ pc = "calcStereoCorrespondences"
    /\ stereoArgs \in StereoCallsDeep
    /\ stereo = StereoLocals(stereoArgs)
    /\ status = <<>> /\ rightCorners = <<>> /\ searched = <<>>
    /\ px = 0 /\ x = 0 /\ y = 0
    /\ DepthIdle /\ ScoreIdle /\ FillIdle /\ RegisterIdle /\ LKIdle /\ CorrIdle

SpecStereoDeep == InitStereoDeep /\ [][NextStereo]_vars

-----------------------------------------------------------------------------
(* Properties of the block-match correspondence engine *)

\* C8 as stated: the call ends by returning one status per feature point,
\* no point makes it abort; status[i] is 1 exactly when a best disparity was
\* found at level 0 for point i and the refinement never took xc farther
\* than one pixel from its seed; a point whose window fits at no level has
\* status 0.
C8_OneStatusPerPoint ==
    /\ pc # "abort"
    /\ (pc = "done" /\ stereoArgs # <<>>) =>
          /\ Len(status) = Len(stereoArgs.leftCorners)
          /\ \A k \in 1..Len(status) :
                /\ status[k] = 1 <=>
                      (searched[k].found0 /\ searched[k].farthest <= Unit)
                /\ ~searched[k].fitted => status[k] = 0

\* C11 as stated: after the scan of a level, if a candidate was scored then
\* bestScoreIndex designates a scored candidate whose score is the lowest of
\* all the scores of the level, a score of 0 included, and bestScore is that
\* score; bestScoreIndex is -1 only when no candidate was scored.
C11_BestIsLowestScored ==
    (pc = "candidate" /\ stereo.d <= stereo.localMaxDisparity) =>
       IF stereo.oi > 0
       THEN /\ stereo.bestScoreIndex \in 0..(stereo.oi - 1)
            /\ stereo.bestScore = stereo.scores[stereo.bestScoreIndex + 1]
            /\ \A k \in 1..stereo.oi : stereo.bestScore <= stereo.scores[k]
       ELSE stereo.bestScoreIndex = -1

\* C12 as stated: at a level where the left window fits, once the scan is
\* over every integer disparity from localMaxDisparity to localMinDisparity,
\* both included, has been scored: one candidate at least.
C12_BothEndsScored ==
    (pc = "candidate" /\ stereo.d <= stereo.localMaxDisparity) =>
       /\ stereo.oi = stereo.localMinDisparity - stereo.localMaxDisparity + 1
       /\ stereo.oi >= 1

\* C13 as stated: the window of every candidate d that the scan takes from
\* the right image lies inside the image of the level: columns
\* center.x + d - halfWin.width to center.x + d + halfWin.width, rows
\* center.y - halfWin.height to center.y + halfWin.height.
C13_WindowInsideImage ==
    (pc = "candidate" /\ stereo.d > stereo.localMaxDisparity) =>
       /\ stereo.center[1] + stereo.d - stereo.halfWin[1] >= 0
       /\ stereo.center[1] + stereo.d + stereo.halfWin[1]
             < LevelSize(stereoArgs.cols, stereo.level)
       /\ stereo.center[2] - stereo.halfWin[2] >= 0
       /\ stereo.center[2] + stereo.halfWin[2]
             < LevelSize(stereoArgs.rows, stereo.level)

\* C14: for each point and after every level, the active range stays
\* ordered and inside the range of the caller:
\* minDisparity <= tmpMinDisparity <= tmpMaxDisparity <= maxDisparity.
C14_RangeWithinCallers ==
    pc \in {"level", "candidate", "refine"} =>
       /\ stereo.minDisparity <= stereo.tmpMinDisparity
       /\ stereo.tmpMinDisparity <= stereo.tmpMaxDisparity
       /\ stereo.tmpMaxDisparity <= stereo.maxDisparity

\* level 2 had a best candidate and both ends of the range for level 1 lie
\* strictly inside the range of the caller
C14_Witness ==
    /\ pc = "level" /\ stereoArgs # <<>>
    /\ stereo.level = 1 /\ stereo.bestScoreIndex >= 0
    /\ stereo.minDisparity < stereo.tmpMinDisparity
    /\ stereo.tmpMaxDisparity < stereo.maxDisparity

C16_MovesWhenANeighbourIsLower ==
    /\ [](pc = "refine" /\ stereo.it = 0 => stereo.step = Unit \div 2)
    /\ [][(pc = "refine" /\ pc' = "refine") =>
             IF stereo'.lower \in {"one", "tie"}
             THEN /\ stereo'.xc \in {stereo.xc - stereo.step,
                                     stereo.xc + stereo.step}
                  /\ stereo'.vc < stereo.vc
                  /\ stereo'.step = stereo.step
             ELSE /\ stereo'.xc = stereo.xc
                  /\ stereo'.vc = stereo.vc
                  /\ stereo'.step = stereo.step \div 2]_vars

\* C16, amended: the step starts at 0.5; in every iteration, if one
\* neighbour has a score strictly lower than the best one and than the
\* other neighbour's then xc moves to it and the step is left alone;
\* otherwise, also when both neighbours have the same score under the best
\* one, xc is left alone and the step is halved.
C16_MovesToTheOnlyLowest ==
    /\ [](pc = "refine" /\ stereo.it = 0 => stereo.step = Unit \div 2)
    /\ [][(pc = "refine" /\ pc' = "refine") =>
             IF stereo'.lower = "one"
             THEN /\ stereo'.xc \in {stereo.xc - stereo.step,
                                     stereo.xc + stereo.step}
                  /\ stereo'.vc < stereo.vc
                  /\ stereo'.step = stereo.step
             ELSE /\ stereo'.xc = stereo.xc
                  /\ stereo'.vc = stereo.vc
                  /\ stereo'.step = stereo.step \div 2]_vars

\* the first iteration found both neighbours with the same score under the
\* best one: xc is still the seed and the step is 0.25
C16_Witness ==
    /\ pc = "refine" /\ stereo.lower = "tie" /\ stereo.it = 1
    /\ stereo.step = Unit \div 4
    /\ stereo.xc = stereoArgs.leftCorners[stereo.i + 1][1] + stereo.d * Unit

-----------------------------------------------------------------------------
(* Constrained pyramidal tracker *)

\* cv::Point2f arithmetic: component by component, in binary32
PtAdd(a, b) == <<FAdd(a[1], b[1]), FAdd(a[2], b[2])>>
PtSub(a, b) == <<FSub(a[1], b[1]), FSub(a[2], b[2])>>
PtMul(a, s) == <<FMul(a[1], s), FMul(a[2], s)>>

\* lines 536-540, 623-627, 688-692: floor(p) lies outside an image of
\* cols x rows pixels widened by the window on its left and top
Outside(p, win, cols, rows) ==
    \/ FFloor(p[1]) < -win[1] \/ FFloor(p[1]) >= cols
    \/ FFloor(p[2]) < -win[2] \/ FFloor(p[2]) >= rows

\* the step of the original tracker, with both components
DeltaUnconstrained(dx, dy) == <<dx, dy>>

\* lines 664-665: the step of one iteration. dx is (A12*b2 - A22*b1) * D
\* and dy is (A12*b1 - A11*b2) * D, which the code replaces by 0
Delta(dx, dy) == <<dx, FZero>>

\* what (A12*b2 - A22*b1) * D and (A12*b1 - A11*b2) * D come to: the images
\* are not modelled, a component is 0, 0.25 or -0.25
LKDeltas == {FZero, FNum(0, 8388608, -25), FNum(1, 8388608, -25)}

\* seeds <<x, y>>: (37, 37), (12.5, 0.3f), (37, 100.3f), (-11, 37) whose
\* window of 21 x 21 pixels touches the left limit, and (200, 37) which
\* lies outside the images
LKPoints ==
    { <<FromInt(37), FromInt(37)>>,
      <<FNum(0, 13107200, -20), FNum(0, 10066330, -25)>>,
      <<FromInt(37), FNum(0, 13146522, -17)>>,
      <<FromInt(-11), FromInt(37)>>,
      <<FromInt(200), FromInt(37)>> }

\* the arguments of a call on two images of 128 x 128 pixels; with
\* OPTFLOW_USE_INITIAL_FLOW the caller's estimate is the seed moved by
\* (-1.5, 0.25). Calls on two points have one pyramid level
LKCalls ==
    { c \in [cols : {128}, rows : {128},
             prevPts : UNION {[1..n -> LKPoints] : n \in 1..2},
             winSize : {<<21, 21>>, <<4, 4>>},
             maxLevel : {0, 2},
             maxCount : {0, 2},
             useInitialFlow : BOOLEAN] :
         Len(c.prevPts) = 1 \/ (c.maxLevel = 0 /\ c.winSize = <<21, 21>>) }

InitLK ==
    /\ pc = "calcOpticalFlowPyrLKStereo"
    /\ \E c \in LKCalls :
          lk = [cols |-> c.cols, rows |-> c.rows, prevPts |-> c.prevPts,
                nextPts |-> IF c.useInitialFlow
                            THEN [k \in 1..Len(c.prevPts) |->
                                     PtAdd(c.prevPts[k],
                                           <<FNum(1, 12582912, -23),
                                             FNum(0, 8388608, -25)>>)]
                            ELSE <<>>,
                status |-> <<>>,
                winSize |-> c.winSize, maxLevel |-> c.maxLevel,
                criteria |-> [maxCount |-> c.maxCount,
                              epsilon |-> FNum(0, 10737418, -30)],
                useInitialFlow |-> c.useInitialFlow,
                halfWin |-> <<FZero, FZero>>, level |-> 0, ptidx |-> 0,
                nextPt |-> <<FZero, FZero>>, j |-> 0,
                prevDelta |-> <<FZero, FZero>>,
                \* not in the code: the vertical components of the steps
                \* applied so far, and per point whether an iteration moved
                \* it and whether the half step was taken back
                steps |-> {},
                iterated |-> [k \in 1..Len(c.prevPts) |-> FALSE],
                halved |-> [k \in 1..Len(c.prevPts) |-> FALSE]]
    /\ px = 0 /\ x = 0 /\ y = 0
    /\ DepthIdle /\ ScoreIdle /\ FillIdle /\ RegisterIdle /\ StereoIdle
    /\ CorrIdle

\* lines 368-507: nextPts created unless it holds the caller's estimate,
\* status all true, the pyramids, the criteria (epsilon squared), halfWin
LKStart ==
    /\ pc = "calcOpticalFlowPyrLKStereo"
    /\ LET n == Len(lk.prevPts)
           built == BuiltLevel(lk.cols, lk.rows, lk.winSize, lk.maxLevel)
           count == IF lk.criteria.maxCount < 0 THEN 0
                    ELSE IF lk.criteria.maxCount > 100 THEN 100
                    ELSE lk.criteria.maxCount
       IN lk' = [lk EXCEPT
                    !.nextPts = IF lk.useInitialFlow THEN @
                                ELSE [k \in 1..n |-> <<FZero, FZero>>],
                    !.status = [k \in 1..n |-> TRUE],
                    !.maxLevel = built,
                    !.criteria = [maxCount |-> count,
                                  epsilon |-> FMul(@.epsilon, @.epsilon)],
                    !.halfWin = <<FMul(FromInt(lk.winSize[1] - 1), FHalf),
                                  FMul(FromInt(lk.winSize[2] - 1), FHalf)>>,
                    !.level = built, !.ptidx = 0]
    /\ pc' = "lk:point"
    /\ UNCHANGED besideLK

\* lines 519-618: the point and its estimate at this level; a point whose
\* window leaves the image, or whose gradient matrix is too flat (the
\* images are not modelled: either outcome), is skipped
LKPoint ==
    /\ pc = "lk:point"
    /\ lk.ptidx < Len(lk.prevPts)
    /\ LET k == lk.ptidx + 1
           prevPt == PtMul(lk.prevPts[k], FNum(0, 8388608, -23 - lk.level))
           nextPt == IF lk.level = lk.maxLevel
                     THEN IF lk.useInitialFlow
                          THEN PtMul(lk.nextPts[k],
                                     FNum(0, 8388608, -23 - lk.level))
                          ELSE prevPt
                     ELSE PtMul(lk.nextPts[k], FromInt(2))
           skipped == [lk EXCEPT !.nextPts[k] = nextPt,
                                 !.status[k] = IF lk.level = 0 THEN FALSE ELSE @,
                                 !.ptidx = @ + 1]
       IN IF Outside(PtSub(prevPt, lk.halfWin), lk.winSize,
                     LevelSize(lk.cols, lk.level), LevelSize(lk.rows, lk.level))
          THEN lk' = skipped /\ pc' = pc
          ELSE \E flat \in BOOLEAN :
                  IF flat
                  THEN lk' = skipped /\ pc' = pc
                  ELSE /\ lk' = [lk EXCEPT
                                    !.nextPts[k] = nextPt,
                                    !.nextPt = PtSub(nextPt, lk.halfWin),
                                    !.prevDelta = <<FZero, FZero>>,
                                    !.j = 0]
                       /\ pc' = IF 0 < lk.criteria.maxCount
                                THEN "lk:iterate" ELSE "lk:err"
    /\ UNCHANGED besideLK

\* lines 621-681: one iteration
LKIterate ==
    /\ pc = "lk:iterate"
    /\ LET k == lk.ptidx + 1
       IN IF Outside(lk.nextPt, lk.winSize,
                     LevelSize(lk.cols, lk.level), LevelSize(lk.rows, lk.level))
          THEN /\ lk' = [lk EXCEPT
                            !.status[k] = IF lk.level = 0 THEN FALSE ELSE @]
               /\ pc' = "lk:err"
          ELSE \E dx \in LKDeltas, dy \in LKDeltas :
                  LET delta == Delta(dx, dy)
                      nextPt == PtAdd(lk.nextPt, delta)
                      moved == [lk EXCEPT
                                   !.nextPt = nextPt,
                                   !.nextPts[k] = PtAdd(nextPt, lk.halfWin),
                                   !.steps = @ \cup {delta[2]},
                                   !.iterated[k] = TRUE]
                  IN IF FLe(FAdd(FMul(delta[1], delta[1]),
                                 FMul(delta[2], delta[2])),
                            lk.criteria.epsilon)
                     THEN lk' = moved /\ pc' = "lk:err"
                     ELSE IF /\ lk.j > 0
                             /\ FLt(FAbs(FAdd(delta[1], lk.prevDelta[1])),
                                    FNum(0, 10737418, -30))
                             /\ FLt(FAbs(FAdd(delta[2], lk.prevDelta[2])),
                                    FNum(0, 10737418, -30))
                     THEN /\ lk' = [moved EXCEPT
                                       !.nextPts[k] =
                                           PtSub(@, PtMul(delta, FHalf)),
                                       !.steps =
                                           @ \cup {FNeg(FMul(delta[2], FHalf))},
                                       !.halved[k] = TRUE]
                          /\ pc' = "lk:err"
                     ELSE /\ lk' = [moved EXCEPT !.prevDelta = delta,
                                                 !.j = @ + 1]
                          /\ pc' = IF lk.j + 1 < lk.criteria.maxCount
                                   THEN "lk:iterate" ELSE "lk:err"
    /\ UNCHANGED besideLK

\* lines 683-722: the error of a tracked point, at level 0; a point whose
\* window has left the image is not tracked
LKError ==
    /\ pc = "lk:err"
    /\ LET k == lk.ptidx + 1
           lost == /\ lk.status[k] /\ lk.level = 0
                   /\ Outside(PtSub(lk.nextPts[k], lk.halfWin), lk.winSize,
                              lk.cols, lk.rows)
       IN lk' = [lk EXCEPT !.status[k] = IF lost THEN FALSE ELSE @,
                           !.ptidx = @ + 1]
    /\ pc' = "lk:point"
    /\ UNCHANGED besideLK

\* line 494: the next finer level
LKLevel ==
    /\ pc = "lk:point"
    /\ lk.ptidx = Len(lk.prevPts)
    /\ lk.level > 0
    /\ lk' = [lk EXCEPT !.level = @ - 1, !.ptidx = 0]
    /\ pc' = pc
    /\ UNCHANGED besideLK

\* line 725: all levels done
LKReturn ==
    /\ pc = "lk:point"
    /\ lk.ptidx = Len(lk.prevPts)
    /\ lk.level = 0
    /\ pc' = "done"
    /\ UNCHANGED <<lk, besideLK>>

NextLK ==
    \/ LKStart
    \/ LKPoint
    \/ LKIterate
    \/ LKError
    \/ LKLevel
    \/ LKReturn

SpecLK == InitLK /\ [][NextLK]_vars

-----------------------------------------------------------------------------
(* Properties of the constrained tracker *)

\* at every level l, taking halfWin.y from the seed's y scaled to the level
\* and adding it back gives the scaled y again: no bit is lost
RoundTrips(k) ==
    \A l \in 0..lk.maxLevel :
       LET yl == FMul(lk.prevPts[k][2], FNum(0, 8388608, -23 - l))
       IN FEq(FAdd(FSub(yl, lk.halfWin[2]), lk.halfWin[2]), yl)

CorrCells(size) == (0..(size.height - 1)) \X (0..(size.width - 1))

\* line 871: cv::Point2i dispPt(int(leftCorners[i].y+0.5f),
\*                              int(leftCorners[i].x+0.5f));
\* cv::Point2i takes (x, y): dispPt.x is the rounded y, dispPt.y the rounded x
DispPt(p) == [x |-> FTrunc(FAdd(p[2], FHalf)), y |-> FTrunc(FAdd(p[1], FHalf))]

\* left corners on a grid of four columns and three rows
CorrPoints ==
    { <<FromInt(1), FromInt(2)>>, <<FromInt(3), FromInt(1)>>,
      <<FromInt(2), FromInt(2)>>, <<FromInt(0), FromInt(0)>>,
      <<FNum(0, 10485760, -22), FNum(0, 13421773, -25)>> }

CorrSizes == { [width |-> 4, height |-> 3], [width |-> 3, height |-> 3] }

\* the calls: one or two correspondences, the right corner on the row of the
\* left one and 1 or 3 pixels to its left, the mask empty or one flag per
\* corner, and lists whose sizes disagree
InitCorr ==
    /\ pc = "corrStart"
    /\ px = 0 /\ x = 0 /\ y = 0
    /\ DepthIdle /\ ScoreIdle /\ FillIdle /\ RegisterIdle /\ StereoIdle
    /\ LKIdle
    /\ \E n \in 1..NCorners, size \in CorrSizes :
       \E left \in [1..n -> CorrPoints], shift \in [1..n -> {1, 3}],
          nRight \in {n - 1, n}, nMask \in {0, 1, n} :
       \E m \in [1..nMask -> BOOLEAN] :
          corr = [disparitySize |-> size,
                  leftCorners |-> left,
                  rightCorners |->
                      [k \in 1..nRight |->
                          <<FSub(left[k][1], FromInt(shift[k])), left[k][2]>>],
                  mask |-> m,
                  disparity |-> <<>>,
                  i |-> 0]

\* lines 864-866: the two size assertions, and the image of zeros
CorrStart ==
    /\ pc = "corrStart"
    /\ IF /\ Len(corr.leftCorners) = Len(corr.rightCorners)
          /\ (Len(corr.mask) = 0 \/ Len(corr.mask) = Len(corr.leftCorners))
       THEN /\ corr' = [corr EXCEPT
                           !.disparity = [c \in CorrCells(corr.disparitySize)
                                             |-> FZero]]
            /\ pc' = "corrPoint"
       ELSE /\ pc' = "abort"
            /\ UNCHANGED corr
    /\ UNCHANGED besideCorr

\* lines 867-876: one turn of the loop over the correspondences
CorrPoint ==
    /\ pc = "corrPoint"
    /\ corr.i < Len(corr.leftCorners)
    /\ LET k == corr.i + 1
           dispPt == DispPt(corr.leftCorners[k])
       IN IF Len(corr.mask) = 0 \/ corr.mask[k]
          THEN IF /\ dispPt.x >= 0 /\ dispPt.x < corr.disparitySize.width
                  /\ dispPt.y >= 0 /\ dispPt.y < corr.disparitySize.height
               THEN /\ corr' = [corr EXCEPT
                                   !.disparity[<<dispPt.y, dispPt.x>>] =
                                       FSub(corr.leftCorners[k][1],
                                            corr.rightCorners[k][1]),
                                   !.i = k]
                    /\ pc' = "corrPoint"
               ELSE /\ pc' = "abort"
                    /\ UNCHANGED corr
          ELSE /\ corr' = [corr EXCEPT !.i = k]
               /\ pc' = "corrPoint"
    /\ UNCHANGED besideCorr

\* line 877: return disparity
CorrReturn ==
    /\ pc = "corrPoint"
    /\ corr.i = Len(corr.leftCorners)
    /\ pc' = "done"
    /\ UNCHANGED <<corr, besideCorr>>

NextCorr ==
    \/ CorrStart
    \/ CorrPoint
    \/ CorrReturn

SpecCorr == InitCorr /\ [][NextCorr]_vars

(***************************************************************************)
(* Properties of the sparse disparity image                                *)
(***************************************************************************)

\* C18: a call whose corners lie inside the image returns; in the returned
\* image the cell at row round(leftCorners[i].y), column
\* round(leftCorners[i].x) of the last unmasked correspondence i at that
\* pixel holds leftCorners[i].x - rightCorners[i].x, and every cell that is
\* the pixel of no unmasked correspondence is 0, for images that are not
\* square as well.
C18_StoredAtOwnPixel ==
    LET \* the pixel of corner k: row round(y), column round(x)
        Own(k) == <<FTrunc(FAdd(corr.leftCorners[k][2], FHalf)),
                    FTrunc(FAdd(corr.leftCorners[k][1], FHalf))>>
        Unmasked(k) == Len(corr.mask) = 0 \/ corr.mask[k]
    IN /\ (pc = "abort" /\ corr # <<>> /\ corr.disparity # <<>>) =>
             \E k \in 1..Len(corr.leftCorners) :
                /\ Unmasked(k)
                /\ Own(k) \notin CorrCells(corr.disparitySize)
       /\ (pc = "done" /\ corr # <<>>) =>
             \A c \in CorrCells(corr.disparitySize) :
                LET here == {k \in 1..Len(corr.leftCorners) :
                                Unmasked(k) /\ Own(k) = c}
                IN IF here = {}
                   THEN corr.disparity[c] = FZero
                   ELSE LET last == CHOOSE k \in here : \A j \in here : j <= k
                        IN corr.disparity[c] =
                              FSub(corr.leftCorners[last][1],
                                   corr.rightCorners[last][1])

=============================================================================
